---- MODULE Spec2Model ----
(***************************************************************************)
(* TruthLens AI video detection: the fingerprint pipeline of               *)
(* src/fft-analyzer.js (FFTAnalyzer.analyzeVideo, extractFrames,           *)
(* seekAndExtract, detectAIPatterns) running against an HTMLVideoElement,  *)
(* and the functions it is built from, each called on its own:             *)
(* analyzeFFTPattern and fft1D (src/fft-analyzer.js), Utils.normalize and  *)
(* Utils.fftShift (src/unnamed/part_001).                                  *)
(*                                                                         *)
(* JavaScript numbers are modelled as exact rationals <<num, den>> in      *)
(* lowest terms with den > 0; <<0, 0>> stands for NaN.                     *)
(*                                                                         *)
(* Scheduling follows the browser's event loop: a task (a click that       *)
(* starts a run, the dispatch of one 'seeked' listener) runs to            *)
(* completion, and the promise continuations it enables (microtasks) run   *)
(* before the next task or the next listener of the same event.  The       *)
(* variable active names the run whose continuation is executing.          *)
(***************************************************************************)
EXTENDS Integers, Sequences, FiniteSets, TLC

(* ------------------------------ bounds --------------------------------- *)

\* Number of analyzeVideo invocations on the one analyzer and video element.
NumRuns == 2

\* video.duration ranges over 1..MaxDuration.
MaxDuration == 10

\* detectAIPatterns on its own is given scores n / ScoreDen, n in 0..ScoreDen.
ScoreDen == 10

\* detectAIPatterns on its own is given lists of 0..MaxFrames frames.
MaxFrames == 2

\* Spectra given to normalize and analyzeFFTPattern on their own: every
\* square array of side 1..MaxSmallWidth with values in Levels, and the
\* patterned spectra of side frameSize.
MaxSmallWidth == 2

\* Fields given to fftShift on its own: width and height in 1..MaxDim; the
\* field whose values are all different, and every field of 0s and 1s
\* that has at most MaxCells values.
MaxDim == 4
MaxCells == 8

\* applyHighPassFilter on its own is given images of width and height in
\* 1..MaxDim: the image of the squares 0, 1, 4, 9, ... and every image of
\* 0s and 1s that has at most MaxFilterCells values.
MaxFilterCells == 9

\* The videos loaded into the page have a duration in 1..MaxAppDuration.
MaxAppDuration == 2

\* fft1D on its own is given arrays of length 0..MaxLen (below 16: the
\* rotation factors of the stages up to 8 are numbers (a + b * sqrt(2)) / d).
MaxLen == 8

(* ------------------------- program constants --------------------------- *)

\* this.frameSize = 256
frameSize == 256

\* const gridSize = 16
gridSize == 16

\* this.sampleFrames = 5
sampleFrames == 5

(* ----------------------------- numbers --------------------------------- *)

RECURSIVE GCD(_, _)
GCD(a, b) == IF b = 0 THEN a ELSE GCD(b, a % b)

Abs(x) == IF x < 0 THEN -x ELSE x

NaN == <<0, 0>>

IsNaN(a) == a[2] = 0

\* n / d as a JavaScript number: 0/0 is NaN; otherwise lowest terms, den > 0.
Rat(n, d) ==
    IF d = 0 THEN NaN
    ELSE LET g == GCD(Abs(n), Abs(d))
             s == IF d < 0 THEN -1 ELSE 1
         IN  <<(s * n) \div g, (s * d) \div g>>

Num(n) == <<n, 1>>

RatAdd(a, b) ==
    IF IsNaN(a) \/ IsNaN(b) THEN NaN
    ELSE Rat(a[1] * b[2] + b[1] * a[2], a[2] * b[2])

RatSub(a, b) ==
    IF IsNaN(a) \/ IsNaN(b) THEN NaN
    ELSE Rat(a[1] * b[2] - b[1] * a[2], a[2] * b[2])

RatMul(a, b) ==
    IF IsNaN(a) \/ IsNaN(b) THEN NaN
    ELSE Rat(a[1] * b[1], a[2] * b[2])

\* a / n for an integer n >= 0 (0/0 is NaN; the model never divides a
\* non-zero number by zero).
RatDivInt(a, n) ==
    IF IsNaN(a) \/ n = 0 THEN NaN
    ELSE Rat(a[1], a[2] * n)

RatAbs(a) == <<Abs(a[1]), a[2]>>

\* Comparisons are false when either side is NaN, as in JavaScript.
RatLt(a, b) == ~IsNaN(a) /\ ~IsNaN(b) /\ a[1] * b[2] < b[1] * a[2]
RatGt(a, b) == RatLt(b, a)
RatLe(a, b) == ~IsNaN(a) /\ ~IsNaN(b) /\ a[1] * b[2] <= b[1] * a[2]

\* Math.min(a, b): NaN if either argument is NaN.
MathMin(a, b) ==
    IF IsNaN(a) \/ IsNaN(b) THEN NaN
    ELSE IF RatLt(b, a) THEN b ELSE a

(* ------------------------------ state ---------------------------------- *)

VARIABLES
    duration,      \* video.duration
    currentTime,   \* video.currentTime, the position last requested
    seeking,       \* video.seeking: a seek has been requested and not completed
    shown,         \* position of the frame the element displays (what drawImage reads)
    listeners,     \* 'seeked' listeners attached to the video, in order of attachment
    dispatch,      \* listeners still to be invoked for the 'seeked' event being dispatched
    active,        \* run whose promise continuation is executing, 0 if none
    run,           \* per invocation of analyzeVideo: its locals and outcome
    abandoned,     \* runs whose caller stopped waiting for them
    captureThrew,  \* runs whose frame capture threw inside the 'seeked' handler
    seekLost,      \* runs that were waiting on a seek the video never completed
    fftThrew,      \* runs in which computeFFT or detectAIPatterns threw
    fftResults,    \* detectAIPatterns called on its own: the per-frame analyses given
    analysis,      \* detectAIPatterns called on its own: <<>> or <<what it returned>>
    spectrum,      \* analyzeFFTPattern / normalize called on their own: [width, height, data]
    normalized,    \* <<>> or <<what Utils.normalize(spectrum.magnitude) returned>>
    classified,    \* <<>> or <<what analyzeFFTPattern returned for spectrum>>
    field,         \* fftShift called on its own: [width, height, data], data the array from index 0
    shifted,       \* the arrays successive calls of fftShift returned, oldest first
    fft,           \* fft1D called on its own: its arrays, its locals and its position
    filtered,      \* <<>> or <<what applyHighPassFilter(field.data, width, height) returned>>
    currentVideo,  \* app: "none" (null) or "file" (the object URL of the uploaded file)
    readyState,    \* app: videoPlayer.readyState
    analyzeBtnDisabled,  \* app: analyzeBtn.disabled
    fftLoadingHidden,    \* app: the loading overlay fftLoading has the class 'hidden'
    resultsHidden,       \* app: resultsSection has the class 'hidden'
    errorModals,   \* app: titles of the error modals shown so far
    handler        \* app: position of each invocation of the click handler analyzeVideo

videoVars == <<duration, currentTime, seeking, shown, listeners, dispatch>>
runVars == <<active, run, abandoned, captureThrew, seekLost, fftThrew>>
detectVars == <<fftResults, analysis>>

appVars == <<currentVideo, readyState, analyzeBtnDisabled, fftLoadingHidden, resultsHidden,
            errorModals, handler>>

extraVars == <<filtered, appVars>>

utilVars == <<spectrum, normalized, classified, field, shifted, fft, extraVars>>

vars == <<videoVars, runVars, detectVars, utilVars>>

\* No array has been given to the functions called on their own.
NoField == [width |-> 0, height |-> 0, data |-> <<>>]

Runs == 1..NumRuns

\* The page as the constructor of the app leaves it: no video, the analyze
\* button enabled, the overlay and the results hidden.
AppAtRest ==
    /\ currentVideo = "none"
    /\ readyState = 0
    /\ analyzeBtnDisabled = FALSE
    /\ fftLoadingHidden = TRUE
    /\ resultsHidden = TRUE
    /\ errorModals = {}
    /\ handler = [r \in Runs |-> "idle"]

ExtraAtRest ==
    /\ filtered = <<>>
    /\ AppAtRest

\* fft1D has not been called.
IdleFFT ==
    [pc |-> "idle", n |-> 0, real |-> <<>>, imag |-> <<>>, i |-> 0, j |-> 0, k |-> 0,
     len |-> 0, wReal |-> <<0, 0, 1>>, wImag |-> <<0, 0, 1>>,
     inReal |-> <<>>, inImag |-> <<>>, swaps |-> <<>>]

UtilsAtRest ==
    /\ spectrum = NoField
    /\ normalized = <<>>
    /\ classified = <<>>
    /\ field = NoField
    /\ shifted = <<>>
    /\ fft = IdleFFT
    /\ ExtraAtRest

(* -------------------- detectAIPatterns (pure part) --------------------- *)

\* A pattern score set, as analyzeFFTPattern returns it and as
\* detectAIPatterns accumulates it.
ScoreSet(g, b, c, k, s) ==
    [gridPattern |-> g, brightDots |-> b, crossShape |-> c,
     checkerboard |-> k, smoothGradient |-> s]

ZeroPatterns == ScoreSet(Num(0), Num(0), Num(0), Num(0), Num(0))

\* patterns.x += analysis.x, for the five keys.
AddScores(p, a) ==
    ScoreSet(RatAdd(p.gridPattern, a.gridPattern),
             RatAdd(p.brightDots, a.brightDots),
             RatAdd(p.crossShape, a.crossShape),
             RatAdd(p.checkerboard, a.checkerboard),
             RatAdd(p.smoothGradient, a.smoothGradient))

\* The accumulation loop over fftResults, in order.
RECURSIVE SumScores(_)
SumScores(analyses) ==
    IF analyses = <<>> THEN ZeroPatterns
    ELSE AddScores(SumScores(SubSeq(analyses, 1, Len(analyses) - 1)),
                   analyses[Len(analyses)])

\* patterns[key] /= numFrames, for the five keys.
AveragePatterns(analyses) ==
    LET p == SumScores(analyses)
        numFrames == Len(analyses)
    IN  ScoreSet(RatDivInt(p.gridPattern, numFrames),
                 RatDivInt(p.brightDots, numFrames),
                 RatDivInt(p.crossShape, numFrames),
                 RatDivInt(p.checkerboard, numFrames),
                 RatDivInt(p.smoothGradient, numFrames))

AiScore(patterns) ==
    RatAdd(RatAdd(RatAdd(RatMul(patterns.gridPattern, Rat(3, 10)),
                         RatMul(patterns.brightDots, Rat(25, 100))),
                  RatMul(patterns.crossShape, Rat(25, 100))),
           RatMul(patterns.checkerboard, Rat(2, 10)))

RealScore(patterns) == patterns.smoothGradient

\* Mutant of IsAI: a tie counts as AI-generated.
IsAIOrTie(patterns) == RatLe(RealScore(patterns), AiScore(patterns))

IsAI(patterns) == RatGt(AiScore(patterns), RealScore(patterns))

\* Mutant of Confidence: capped at 100.
ConfidenceCappedAt100(patterns) ==
    MathMin(RatMul(RatAbs(RatSub(AiScore(patterns), RealScore(patterns))), Num(100)),
            Num(100))

Confidence(patterns) ==
    MathMin(RatMul(RatAbs(RatSub(AiScore(patterns), RealScore(patterns))), Num(100)),
            Num(99))

GridFinding == "Strong grid pattern detected - characteristic of CNN upsampling"
DotsFinding == "Regular bright dots found - indicates periodic artifacts"
CrossFinding == "Cross/plus shape pattern - common in GAN-generated content"
CheckerFinding == "Checkerboard effect visible - typical of diffusion models"

NaturalFindings ==
    << "Smooth, natural frequency distribution detected",
       "No geometric patterns or regular artifacts found",
       "Frequency spectrum matches real camera footage" >>

GridReported(patterns) == RatGt(patterns.gridPattern, Rat(5, 10))
DotsReported(patterns) == RatGt(patterns.brightDots, Rat(5, 10))
CrossReported(patterns) == RatGt(patterns.crossShape, Rat(5, 10))
\* Mutant of CheckerReported: a score equal to the threshold is reported.
CheckerReportedAtThreshold(patterns) == RatLe(Rat(4, 10), patterns.checkerboard)

CheckerReported(patterns) == RatGt(patterns.checkerboard, Rat(4, 10))

Details(patterns) ==
    IF IsAI(patterns)
    THEN (IF GridReported(patterns) THEN <<GridFinding>> ELSE <<>>)
         \o (IF DotsReported(patterns) THEN <<DotsFinding>> ELSE <<>>)
         \o (IF CrossReported(patterns) THEN <<CrossFinding>> ELSE <<>>)
         \o (IF CheckerReported(patterns) THEN <<CheckerFinding>> ELSE <<>>)
    ELSE NaturalFindings

\* detectAIPatterns, given the per-frame analyses of fftResults in order.
DetectAIPatterns(analyses) ==
    LET patterns == AveragePatterns(analyses)
    IN  [isAI |-> IsAI(patterns),
         confidence |-> Confidence(patterns),
         patterns |-> patterns,
         details |-> Details(patterns)]

(* --------------------------- the pipeline ------------------------------ *)

\* The settled states of the promise analyzeVideo returns.
Settled == {"resolved", "rejected"}

\* The video's content, as the pattern classifier sees it: what
\* analyzeFFTPattern returns for the spectrum of the frame at a position.
\* The first half of the video is structureless footage, the second half
\* shows every artifact.
NaturalScores == ScoreSet(Num(0), Num(0), Num(0), Num(0), Rat(9, 10))
ArtifactScores == ScoreSet(Num(1), Num(1), Num(1), Rat(6, 10), Num(0))

FrameScores(frame) ==
    IF RatLt(RatMul(frame.time, Num(2)), Num(duration))
    THEN NaturalScores
    ELSE ArtifactScores

\* Mutant of Interval: the interval taken over numFrames, so that the last
\* timestamp is the duration itself.
IntervalOverNumFrames(numFrames) == Rat(duration, numFrames)

\* const interval = duration / (numFrames + 1)
Interval(numFrames) == Rat(duration, numFrames + 1)

\* const time = interval * i
Time(numFrames, i) == RatMul(Interval(numFrames), Num(i))

\* progressCallback((i / numFrames) * 50)
ExtractProgress(i, numFrames) == RatMul(Rat(i, numFrames), Num(50))

\* progressCallback((i + 1) / frames.length * 100)
FFTProgress(i, numFrames) == RatMul(Rat(i + 1, numFrames), Num(100))

\* The locals of an invocation that has not been made yet.
IdleRun ==
    [pc |-> "idle", i |-> 0, frameData |-> <<>>,
     frames |-> <<>>, k |-> 0, fftResults |-> <<>>, progress |-> <<>>,
     requests |-> <<>>, result |-> <<>>]

Init ==
    /\ duration \in 1..MaxDuration
    /\ currentTime = Num(0)
    /\ seeking = FALSE
    /\ shown = Num(0)
    /\ listeners = <<>>
    /\ dispatch = <<>>
    /\ active = 0
    /\ run = [r \in Runs |-> IdleRun]
    /\ abandoned = {}
    /\ captureThrew = {}
    /\ seekLost = {}
    /\ fftThrew = {}
    /\ fftResults = <<>>
    /\ analysis = <<>>
    /\ UtilsAtRest

\* No task is running: no continuation executes and no event is being dispatched.
BetweenTasks == active = 0 /\ dispatch = <<>>

\* Mutant of RemoveEventListener: the listener stays attached.
KeepEventListener(ls, l) == ls

\* video.removeEventListener('seeked', onSeeked)
RemoveEventListener(ls, l) == SelectSeq(ls, LAMBDA x : x # l)

\* Mutant of SeekAndExtract: the listener is attached twice.
SeekAndExtractTwoListeners(r, i, time) ==
    /\ listeners' = Append(Append(listeners, [run |-> r, i |-> i]), [run |-> r, i |-> i + 1])
    /\ currentTime' = time
    /\ seeking' = TRUE

\* seekAndExtract up to the point where it returns its promise:
\* video.addEventListener('seeked', onSeeked); video.currentTime = time.
SeekAndExtract(r, i, time) ==
    /\ listeners' = Append(listeners, [run |-> r, i |-> i])
    /\ currentTime' = time
    /\ seeking' = TRUE

\* analyzeVideo(video, progressCallback) is called, with a callback as the
\* application always gives one: extractFrames runs up to its first await.
\* The caller starts a run only when every earlier one has settled or has
\* been abandoned.
AnalyzeVideoCall(r) ==
    /\ BetweenTasks
    /\ run[r].pc = "idle"
    /\ \A q \in Runs : q < r => (run[q].pc \in Settled \/ q \in abandoned)
    /\ IF 1 <= sampleFrames
       THEN /\ run' = [run EXCEPT ![r] =
                   [@ EXCEPT !.pc = "awaitSeek", !.i = 1,
                             !.requests = <<Time(sampleFrames, 1)>>]]
            /\ SeekAndExtract(r, 1, Time(sampleFrames, 1))
            /\ active' = 0
       ELSE /\ run' = [run EXCEPT ![r] = [@ EXCEPT !.pc = "fft", !.i = 1]]
            /\ active' = r
            /\ UNCHANGED <<listeners, currentTime, seeking>>
    /\ UNCHANGED <<duration, shown, dispatch, abandoned, captureThrew, seekLost,
                   fftThrew, detectVars>>

\* analyzeVideo called on the analyzer directly.
AnalyzeVideo(r) == AnalyzeVideoCall(r) /\ UNCHANGED utilVars

\* The video completes the seek last requested and fires 'seeked': the frame
\* at currentTime is displayed, and the listeners attached now are the ones
\* the event is dispatched to.
Seeked ==
    /\ BetweenTasks
    /\ seeking
    /\ seeking' = FALSE
    /\ shown' = currentTime
    /\ dispatch' = listeners
    /\ UNCHANGED <<duration, currentTime, listeners, runVars, detectVars, utilVars>>

\* Utils.extractFrame(video, this.frameSize): the frame the element displays.
ExtractFrame == [time |-> shown]

\* resolve(frameData) on the promise of seekAndExtract(r, i): the run is
\* resumed if it is waiting on that promise, else nothing happens.
Resolve(rec, i, frameData) ==
    IF rec.pc = "awaitSeek" /\ rec.i = i
    THEN [rec EXCEPT !.pc = "resume", !.frameData = <<frameData>>]
    ELSE rec

\* onSeeked, the listener of seekAndExtract, is invoked and returns.
OnSeeked ==
    /\ active = 0
    /\ dispatch # <<>>
    /\ LET l == Head(dispatch)
           rec == Resolve(run[l.run], l.i, ExtractFrame)
       IN  /\ dispatch' = Tail(dispatch)
           /\ listeners' = RemoveEventListener(listeners, l)
           /\ run' = [run EXCEPT ![l.run] = rec]
           /\ active' = IF rec.pc = "resume" THEN l.run ELSE 0
    /\ UNCHANGED <<duration, currentTime, seeking, shown, abandoned, captureThrew,
                   seekLost, fftThrew, detectVars, utilVars>>

\* onSeeked is invoked and Utils.extractFrame throws (drawImage or
\* getImageData fails): the listener is already removed, resolve is never
\* called, and the exception ends in the event loop's error report.
OnSeekedThrows ==
    /\ active = 0
    /\ dispatch # <<>>
    /\ LET l == Head(dispatch)
       IN  /\ dispatch' = Tail(dispatch)
           /\ listeners' = RemoveEventListener(listeners, l)
           /\ captureThrew' = captureThrew \cup {l.run}
    /\ UNCHANGED <<duration, currentTime, seeking, shown, active, run, abandoned,
                   seekLost, fftThrew, detectVars, utilVars>>

\* The video gives up the seek in progress without firing 'seeked' (the
\* frame source fails to produce the frame).
SeekFails ==
    /\ BetweenTasks
    /\ seeking
    /\ seeking' = FALSE
    /\ seekLost' = seekLost \cup {listeners[n].run : n \in 1..Len(listeners)}
    /\ UNCHANGED <<duration, currentTime, shown, listeners, dispatch, active, run,
                   abandoned, captureThrew, fftThrew, detectVars, utilVars>>

\* The caller of run r stops waiting for it while it is suspended on a seek.
Abandon(r) ==
    /\ BetweenTasks
    /\ run[r].pc = "awaitSeek"
    /\ r \notin abandoned
    /\ abandoned' = abandoned \cup {r}
    /\ UNCHANGED <<videoVars, active, run, captureThrew, seekLost, fftThrew,
                   detectVars, utilVars>>

\* progressCallback(value): the callback calls of a run so far, with one more.
Report(rec, phase, value) ==
    Append(rec.progress, [phase |-> phase, value |-> value])

\* extractFrames resumes after `await this.seekAndExtract(video, time)`:
\* frames.push(frameData), the progress call, and the next iteration up to
\* its await, or the return of frames into analyzeVideo's loop.
ExtractFramesResume(r) ==
    /\ active = r
    /\ run[r].pc = "resume"
    /\ LET rec == run[r]
           pushed == [rec EXCEPT
                        !.frames = Append(@, rec.frameData[1]),
                        !.frameData = <<>>,
                        !.progress = Report(rec, "extract",
                                            ExtractProgress(rec.i, sampleFrames))]
       IN  IF rec.i + 1 <= sampleFrames
           THEN /\ run' = [run EXCEPT ![r] =
                       [pushed EXCEPT !.pc = "awaitSeek", !.i = rec.i + 1,
                                      !.requests = Append(@, Time(sampleFrames, rec.i + 1))]]
                /\ SeekAndExtract(r, rec.i + 1, Time(sampleFrames, rec.i + 1))
                /\ active' = 0
           ELSE /\ run' = [run EXCEPT ![r] =
                       [pushed EXCEPT !.pc = "fft", !.i = rec.i + 1, !.k = 0]]
                /\ active' = r
                /\ UNCHANGED <<listeners, currentTime, seeking>>
    /\ UNCHANGED <<duration, shown, dispatch, abandoned, captureThrew, seekLost,
                   fftThrew, detectVars, utilVars>>

\* One iteration of analyzeVideo's loop: computeFFT(frames[i]) returns,
\* fftResults.push(fftData), the progress call.
ComputeFFT(r) ==
    /\ active = r
    /\ run[r].pc = "fft"
    /\ run[r].k < Len(run[r].frames)
    /\ LET rec == run[r]
           frame == rec.frames[rec.k + 1]
           fftData == [frame |-> frame, scores |-> FrameScores(frame)]
       IN  run' = [run EXCEPT ![r] =
               [rec EXCEPT !.fftResults = Append(@, fftData),
                           !.progress = Report(rec, "fft",
                                               FFTProgress(rec.k, Len(rec.frames))),
                           !.k = rec.k + 1]]
    /\ UNCHANGED <<videoVars, active, abandoned, captureThrew, seekLost, fftThrew,
                   detectVars, utilVars>>

\* Mutant of CatchError: the error is swallowed and the frame skipped.
SkipFrameOnError(rec) == [rec EXCEPT !.k = rec.k + 1]

\* catch (error) { console.error(...); throw error; }: the promise of
\* analyzeVideo rejects.
CatchError(rec) == [rec EXCEPT !.pc = "rejected", !.frames = <<>>, !.fftResults = <<>>]

\* computeFFT(frames[i]) throws.
ComputeFFTThrows(r) ==
    /\ active = r
    /\ run[r].pc = "fft"
    /\ run[r].k < Len(run[r].frames)
    /\ fftThrew' = fftThrew \cup {r}
    /\ run' = [run EXCEPT ![r] = CatchError(@)]
    /\ active' = IF run'[r].pc \in Settled THEN 0 ELSE r
    /\ UNCHANGED <<videoVars, abandoned, captureThrew, seekLost, detectVars, utilVars>>

\* detectAIPatterns(fftResults) throws after the loop.
DetectAIPatternsThrows(r) ==
    /\ active = r
    /\ run[r].pc = "fft"
    /\ run[r].k >= Len(run[r].frames)
    /\ fftThrew' = fftThrew \cup {r}
    /\ run' = [run EXCEPT ![r] = CatchError(@)]
    /\ active' = IF run'[r].pc \in Settled THEN 0 ELSE r
    /\ UNCHANGED <<videoVars, abandoned, captureThrew, seekLost, detectVars, utilVars>>

\* Mutant of AnalysisResult: the spectrum of the last frame is returned.
AnalysisResultLastFrame(results) ==
    LET a == DetectAIPatterns([n \in 1..Len(results) |-> results[n].scores])
    IN  [isAIGenerated |-> a.isAI,
         confidence |-> a.confidence,
         patterns |-> a.patterns,
         fftData |-> IF results = <<>> THEN <<>> ELSE <<results[Len(results)]>>,
         details |-> a.details]

\* The object analyzeVideo returns.
AnalysisResult(results) ==
    LET a == DetectAIPatterns([n \in 1..Len(results) |-> results[n].scores])
    IN  [isAIGenerated |-> a.isAI,
         confidence |-> a.confidence,
         patterns |-> a.patterns,
         fftData |-> IF results = <<>> THEN <<>> ELSE <<results[1]>>,
         details |-> a.details]

\* The loop of analyzeVideo is over: detectAIPatterns(fftResults) and return.
\* The promise resolves with the result; frames and fftResults go out of
\* scope.
Return(r) ==
    /\ active = r
    /\ run[r].pc = "fft"
    /\ run[r].k >= Len(run[r].frames)
    /\ run' = [run EXCEPT ![r] =
           [@ EXCEPT !.pc = "resolved",
                     !.result = <<AnalysisResult(run[r].fftResults)>>,
                     !.frames = <<>>, !.fftResults = <<>>]]
    /\ active' = 0
    /\ UNCHANGED <<videoVars, abandoned, captureThrew, seekLost, fftThrew,
                   detectVars, utilVars>>

Next ==
    \/ \E r \in Runs : AnalyzeVideo(r)
    \/ Seeked
    \/ OnSeeked
    \/ OnSeekedThrows
    \/ SeekFails
    \/ \E r \in Runs : Abandon(r)
    \/ \E r \in Runs : ExtractFramesResume(r)
    \/ \E r \in Runs : ComputeFFT(r)
    \/ \E r \in Runs : ComputeFFTThrows(r)
    \/ \E r \in Runs : DetectAIPatternsThrows(r)
    \/ \E r \in Runs : Return(r)

Spec == Init /\ [][Next]_vars

(* ------------- the page around the analyzer: src/app.js ---------------- *)

\* What the page's handlers never touch: the state of the functions called
\* on their own.
ownVars == <<spectrum, normalized, classified, field, shifted, fft, filtered>>

\* The page is loaded: no video yet (duration 0 stands for that of an
\* element without media, which nothing reads).
InitApp ==
    /\ duration = 0
    /\ currentTime = Num(0)
    /\ seeking = FALSE
    /\ shown = Num(0)
    /\ listeners = <<>>
    /\ dispatch = <<>>
    /\ active = 0
    /\ run = [r \in Runs |-> IdleRun]
    /\ abandoned = {}
    /\ captureThrew = {}
    /\ seekLost = {}
    /\ fftThrew = {}
    /\ fftResults = <<>>
    /\ analysis = <<>>
    /\ UtilsAtRest

\* The promise a click handler awaits has settled and its continuation has
\* not run yet: it runs before any other task.
HandlerPending ==
    \E r \in Runs : handler[r] = "awaitAnalysis" /\ run[r].pc \in Settled

TaskMayStart == BetweenTasks /\ ~HandlerPending

\* videoPlayer.src = ...: the element drops its media, and with it the seek
\* in progress, for which no 'seeked' event is fired.
SetSrc ==
    /\ duration' = 0
    /\ currentTime' = Num(0)
    /\ seeking' = FALSE
    /\ shown' = Num(0)
    /\ readyState' = 0

\* loadVideo(file) with a file that passes validateFile.
LoadVideo ==
    /\ TaskMayStart
    /\ currentVideo' = "file"
    /\ SetSrc
    /\ resultsHidden' = TRUE
    /\ UNCHANGED <<listeners, dispatch, runVars, detectVars, ownVars, analyzeBtnDisabled,
                   fftLoadingHidden, errorModals, handler>>

\* The element has loaded the file: its duration is known and the first
\* frame is available.
LoadedData ==
    /\ TaskMayStart
    /\ currentVideo = "file"
    /\ readyState = 0
    /\ readyState' = 4
    /\ duration' \in 1..MaxAppDuration
    /\ UNCHANGED <<currentTime, seeking, shown, listeners, dispatch, runVars, detectVars,
                   ownVars, currentVideo, analyzeBtnDisabled, fftLoadingHidden,
                   resultsHidden, errorModals, handler>>

\* this.showError(title, message)
ShowError(title) == errorModals' = errorModals \cup {title}

\* A click on the analyze button (a disabled button receives none) with no
\* video loaded: if (!this.currentVideo) { showError; return }.
AnalyzeWithoutVideo ==
    /\ TaskMayStart
    /\ ~analyzeBtnDisabled
    /\ currentVideo = "none"
    /\ ShowError("No Video Loaded")
    /\ UNCHANGED <<videoVars, runVars, detectVars, ownVars, currentVideo, readyState,
                   analyzeBtnDisabled, fftLoadingHidden, resultsHidden, handler>>

\* A click while the file is still loading: readyState < 2.
AnalyzeBeforeReady ==
    /\ TaskMayStart
    /\ ~analyzeBtnDisabled
    /\ currentVideo # "none"
    /\ readyState < 2
    /\ ShowError("Video Not Ready")
    /\ UNCHANGED <<videoVars, runVars, detectVars, ownVars, currentVideo, readyState,
                   analyzeBtnDisabled, fftLoadingHidden, resultsHidden, handler>>

\* A click with a video that is ready: the button is disabled, the overlay
\* shown, the results hidden, and this.analyzer.analyzeVideo is called; the
\* handler is suspended on its promise.
AppAnalyzeVideo(r) ==
    /\ TaskMayStart
    /\ ~analyzeBtnDisabled
    /\ currentVideo # "none"
    /\ readyState >= 2
    /\ handler[r] = "idle"
    /\ \A q \in Runs : q < r => handler[q] # "idle"
    /\ analyzeBtnDisabled' = TRUE
    /\ fftLoadingHidden' = FALSE
    /\ resultsHidden' = TRUE
    /\ handler' = [handler EXCEPT ![r] = "awaitAnalysis"]
    /\ AnalyzeVideoCall(r)
    /\ UNCHANGED <<ownVars, currentVideo, readyState, errorModals>>

\* The promise of analyzeVideo has resolved: the overlay is hidden and the
\* handler is suspended on visualizer.animateIn(), that is on a timer.
HandlerResolved(r) ==
    /\ active = 0
    /\ handler[r] = "awaitAnalysis"
    /\ run[r].pc = "resolved"
    /\ fftLoadingHidden' = TRUE
    /\ handler' = [handler EXCEPT ![r] = "awaitAnimate"]
    /\ UNCHANGED <<videoVars, runVars, detectVars, ownVars, currentVideo, readyState,
                   analyzeBtnDisabled, resultsHidden, errorModals>>

\* The timer of animateIn fires: render, displayResults, and the finally
\* block re-enables the button.
AnimateInDone(r) ==
    /\ TaskMayStart
    /\ handler[r] = "awaitAnimate"
    /\ resultsHidden' = FALSE
    /\ analyzeBtnDisabled' = FALSE
    /\ handler' = [handler EXCEPT ![r] = "done"]
    /\ UNCHANGED <<videoVars, runVars, detectVars, ownVars, currentVideo, readyState,
                   fftLoadingHidden, errorModals>>

\* The titles the catch block chooses from by the error's message.
ErrorTitles ==
    {"Analysis Failed", "Frame Extraction Error", "FFT Computation Error", "Memory Error"}

\* The promise of analyzeVideo has rejected: the catch block hides the
\* overlay and shows the error, the finally block re-enables the button.
HandlerRejected(r) ==
    /\ active = 0
    /\ handler[r] = "awaitAnalysis"
    /\ run[r].pc = "rejected"
    /\ fftLoadingHidden' = TRUE
    /\ \E title \in ErrorTitles : ShowError(title)
    /\ analyzeBtnDisabled' = FALSE
    /\ handler' = [handler EXCEPT ![r] = "done"]
    /\ UNCHANGED <<videoVars, runVars, detectVars, ownVars, currentVideo, readyState,
                   resultsHidden>>

\* reset(): a click on the reset button.
Reset ==
    /\ TaskMayStart
    /\ currentVideo' = "none"
    /\ SetSrc
    /\ resultsHidden' = TRUE
    /\ UNCHANGED <<listeners, dispatch, runVars, detectVars, ownVars, analyzeBtnDisabled,
                   fftLoadingHidden, errorModals, handler>>

\* What the user does.
UserStep ==
    \/ LoadVideo
    \/ AnalyzeWithoutVideo
    \/ AnalyzeBeforeReady
    \/ \E r \in Runs : AppAnalyzeVideo(r)
    \/ Reset

\* The element completes a seek and dispatches 'seeked' to the listeners.
SeekStep ==
    \/ ~HandlerPending /\ Seeked
    \/ ~HandlerPending /\ OnSeeked
    \/ ~HandlerPending /\ OnSeekedThrows

\* The continuations of the analyzer and of the click handler.
ContinuationStep ==
    \/ \E r \in Runs : ExtractFramesResume(r)
    \/ \E r \in Runs : ComputeFFT(r)
    \/ \E r \in Runs : ComputeFFTThrows(r)
    \/ \E r \in Runs : DetectAIPatternsThrows(r)
    \/ \E r \in Runs : Return(r)
    \/ \E r \in Runs : HandlerResolved(r)
    \/ \E r \in Runs : HandlerRejected(r)

TimerStep == \E r \in Runs : AnimateInDone(r)

NextApp ==
    \/ UserStep
    \/ LoadedData
    \/ SeekStep
    \/ ContinuationStep
    \/ TimerStep

SpecApp == InitApp /\ [][NextApp]_vars

\* The browser completes what it has begun: a file that loads, a seek that
\* is in progress, an event being dispatched, a continuation that is ready
\* and a timer that is set are not put off forever.  Nothing obliges the
\* user to click.
SpecAppFair ==
    /\ SpecApp
    /\ WF_vars(LoadedData)
    /\ WF_vars(SeekStep)
    /\ WF_vars(ContinuationStep)
    /\ WF_vars(TimerStep)

(* ------------------- detectAIPatterns on its own ----------------------- *)

Scores == { Rat(n, ScoreDen) : n \in 0..ScoreDen }

InitDetect ==
    /\ duration = 1
    /\ currentTime = Num(0)
    /\ seeking = FALSE
    /\ shown = Num(0)
    /\ listeners = <<>>
    /\ dispatch = <<>>
    /\ active = 0
    /\ run = [r \in Runs |-> IdleRun]
    /\ abandoned = {}
    /\ captureThrew = {}
    /\ seekLost = {}
    /\ fftThrew = {}
    /\ \E g \in Scores, b \in Scores, c \in Scores, k \in Scores, s \in Scores :
         fftResults = << ScoreSet(g, b, c, k, s) >>
    /\ analysis = <<>>
    /\ UtilsAtRest

\* detectAIPatterns(fftResults) is called and returns.
Detect ==
    /\ analysis = <<>>
    /\ analysis' = <<DetectAIPatterns(fftResults)>>
    /\ UNCHANGED <<videoVars, runVars, fftResults, utilVars>>

NextDetect == Detect

SpecDetect == InitDetect /\ [][NextDetect]_vars

(* ------------- detectAIPatterns on lists of several frames ------------- *)

\* The ends of the score interval.
EndScores == {Num(0), Num(1)}

\* The per-frame score sets whose five scores are 0 or 1.
EndScoreSets ==
    { ScoreSet(g, b, c, k, s) :
        g \in EndScores, b \in EndScores, c \in EndScores,
        k \in EndScores, s \in EndScores }

\* detectAIPatterns is about to be called with a list of 0..MaxFrames
\* per-frame analyses.
InitAverage ==
    /\ duration = 1
    /\ currentTime = Num(0)
    /\ seeking = FALSE
    /\ shown = Num(0)
    /\ listeners = <<>>
    /\ dispatch = <<>>
    /\ active = 0
    /\ run = [r \in Runs |-> IdleRun]
    /\ abandoned = {}
    /\ captureThrew = {}
    /\ seekLost = {}
    /\ fftThrew = {}
    /\ \E n \in 0..MaxFrames : fftResults \in [1..n -> EndScoreSets]
    /\ analysis = <<>>
    /\ UtilsAtRest

SpecAverage == InitAverage /\ [][NextDetect]_vars

(* --------------------- Utils.normalize, on its own --------------------- *)

\* An array of width * height numbers is kept in the state by rows: element
\* y * width + x of the array is rows[y][x].  Flat is the array a function
\* is given, Rows keeps the array a function returns.
Flat(rows, width, height) ==
    [idx \in 0..(width * height - 1) |-> rows[idx \div width][idx % width]]

Rows(array, width, height) ==
    [y \in 0..(height - 1) |-> [x \in 0..(width - 1) |-> array[y * width + x]]]

SetMin(S) == CHOOSE m \in S : \A x \in S : m <= x
SetMax(S) == CHOOSE m \in S : \A x \in S : x <= m

\* Storing the number a into a Uint8ClampedArray: rounded to the nearest
\* integer, ties to even, and clamped to 0..255; NaN is stored as 0.
ToUint8Clamp(a) ==
    IF IsNaN(a) THEN 0
    ELSE LET fl == a[1] \div a[2]
             twice == 2 * (a[1] - fl * a[2])
             rounded == IF twice < a[2] THEN fl
                        ELSE IF twice > a[2] THEN fl + 1
                        ELSE IF fl % 2 = 0 THEN fl ELSE fl + 1
         IN  IF rounded < 0 THEN 0 ELSE IF rounded > 255 THEN 255 ELSE rounded

\* Mutant of Scale: the minimum is not subtracted.
ScaleWithoutOffset(v, min, range) == RatMul(Rat(v, range), Num(255))

\* ((data[i] - min) / range) * 255
Scale(v, min, range) == RatMul(Rat(v - min, range), Num(255))

\* Utils.normalize(data), where length is data.length >= 1 and data is
\* indexed from 0.  The value stored at i depends on data[i], min and range
\* only, so it is computed once for each value that occurs in data.
Normalize(data, length) ==
    LET values == { data[i] : i \in 0..(length - 1) }
        min == SetMin(values)
        max == SetMax(values)
        range == max - min
        stored == [v \in values |->
                     IF range > 0
                     THEN ToUint8Clamp(Scale(v, min, range))
                     ELSE 0]
    IN  [i \in 0..(length - 1) |-> stored[data[i]]]

(* ------------------ analyzeFFTPattern, on its own ---------------------- *)

\* The values gridSize, 2 * gridSize, ... below limit.
GridSteps(limit) == { n \in 1..(limit - 1) : n % gridSize = 0 }

\* Mutant of Clamped: the quotient is returned as it is.
Unclamped(count, divisor) == Rat(count, divisor)

\* Math.min(count / divisor, 1)
Clamped(count, divisor) == MathMin(Rat(count, divisor), Num(1))

\* Mutant of SmoothShare: the share is taken of the interior points.
SmoothShareOfInterior(gradientSmooth, width, height) ==
    Rat(gradientSmooth, (width - 2) * (height - 2))

\* smoothGradient = gradientSmooth / (width * height)
SmoothShare(gradientSmooth, width, height) == Rat(gradientSmooth, width * height)

\* analyzeFFTPattern(magnitude, width, height), where magnitude has
\* width * height elements.  The loops over y and x are taken over the
\* index idx = y * width + x they visit; an index outside the array reads
\* undefined, and a comparison with it is false.
AnalyzeFFTPattern(magnitude, width, height) ==
    LET centerX == width \div 2
        centerY == height \div 2
        length == width * height
        n == Normalize(magnitude, length)
        gridCount ==
            Cardinality({ c \in GridSteps(height) \X GridSteps(width) :
                c[1] * width + c[2] < length /\ n[c[1] * width + c[2]] > 200 })
        brightCount == Cardinality({ i \in 0..(length - 1) : n[i] > 240 })
        crossCount ==
            Cardinality({ i \in 0..(width - 1) :
                centerY * width + i < length /\ n[centerY * width + i] > 180 })
            + Cardinality({ i \in 0..(width - 1) :
                i * width + centerX < length /\ n[i * width + centerX] > 180 })
        checkerCount ==
            Cardinality({ idx \in 0..(width * (height - 1) - 1) :
                /\ idx % width < width - 1
                /\ \/ Abs(n[idx] - n[idx + 1]) > 100
                   \/ Abs(n[idx] - n[idx + width]) > 100 })
        gradientSmooth ==
            Cardinality({ idx \in width..(width * (height - 1) - 1) :
                /\ idx % width > 0
                /\ idx % width < width - 1
                /\ LET sum == Abs(n[idx] - n[idx - width]) + Abs(n[idx] - n[idx + width])
                              + Abs(n[idx] - n[idx - 1]) + Abs(n[idx] - n[idx + 1])
                   IN  RatLt(<<sum, 4>>, Num(30)) })
    IN  ScoreSet(Clamped(gridCount, 100),
                 Clamped(brightCount, 500),
                 Clamped(crossCount, width * 2),
                 Clamped(checkerCount, width * height),
                 SmoothShare(gradientSmooth, width, height))

\* The patterned spectra of side frameSize: blank, saturated, peaks on the
\* grid, a bright upper half, alternating values, a horizontal ramp.
PatternKinds == {"flat0", "flat255", "peaks", "halfBright", "checker", "ramp"}

\* The value of the patterned spectrum at column x, row y.
PatternValue(kind, x, y) ==
    CASE kind = "flat0" -> 0
      [] kind = "flat255" -> 255
      [] kind = "peaks" -> IF x % gridSize = 0 /\ y % gridSize = 0 THEN 255 ELSE 0
      [] kind = "halfBright" -> IF y < frameSize \div 2 THEN 255 ELSE 0
      [] kind = "checker" -> IF (x + y) % 2 = 0 THEN 255 ELSE 0
      [] kind = "ramp" -> x

Patterned(kind) ==
    [width |-> frameSize, height |-> frameSize,
     data |-> [y \in 0..(frameSize - 1) |->
                 [x \in 0..(frameSize - 1) |-> PatternValue(kind, x, y)]]]

\* The values of the small spectra: with all three present the middle one
\* is scaled to 127.5, which the Uint8ClampedArray rounds.
Levels == {-1, 0, 1}

\* normalize or analyzeFFTPattern is about to be called with a square
\* spectrum.
InitClassify ==
    /\ duration = 1
    /\ currentTime = Num(0)
    /\ seeking = FALSE
    /\ shown = Num(0)
    /\ listeners = <<>>
    /\ dispatch = <<>>
    /\ active = 0
    /\ run = [r \in Runs |-> IdleRun]
    /\ abandoned = {}
    /\ captureThrew = {}
    /\ seekLost = {}
    /\ fftThrew = {}
    /\ fftResults = <<>>
    /\ analysis = <<>>
    /\ \/ \E w \in 1..MaxSmallWidth :
            \E d \in [0..(w - 1) -> [0..(w - 1) -> Levels]] :
              spectrum = [width |-> w, height |-> w, data |-> d]
       \/ \E kind \in PatternKinds : spectrum = Patterned(kind)
    /\ normalized = <<>>
    /\ classified = <<>>
    /\ field = NoField
    /\ shifted = <<>>
    /\ fft = IdleFFT
    /\ ExtraAtRest

\* Utils.normalize(spectrum.data) is called and returns.
NormalizeCall ==
    /\ normalized = <<>>
    /\ classified = <<>>
    /\ LET w == spectrum.width
           h == spectrum.height
       IN  normalized' = << Rows(Normalize(Flat(spectrum.data, w, h), w * h), w, h) >>
    /\ UNCHANGED <<videoVars, runVars, detectVars, extraVars, spectrum, classified, field, shifted,
                   fft>>

\* analyzeFFTPattern(spectrum.data, width, height) is called and returns.
AnalyzeFFTPatternCall ==
    /\ normalized = <<>>
    /\ classified = <<>>
    /\ LET w == spectrum.width
           h == spectrum.height
       IN  classified' = << AnalyzeFFTPattern(Flat(spectrum.data, w, h), w, h) >>
    /\ UNCHANGED <<videoVars, runVars, detectVars, extraVars, spectrum, normalized, field, shifted,
                   fft>>

NextClassify == NormalizeCall \/ AnalyzeFFTPatternCall

SpecClassify == InitClassify /\ [][NextClassify]_vars

(* ----------------------- Utils.fftShift, on its own -------------------- *)

\* Mutant of NewY: the row is not shifted.
NewYUnshifted(y, halfHeight, height) == y

\* const newY = (y + halfHeight) % height
NewY(y, halfHeight, height) == (y + halfHeight) % height

\* const newX = (x + halfWidth) % width
NewX(x, halfWidth, width) == (x + halfWidth) % width

\* The two loops of fftShift from iteration idx = y * width + x on, over the
\* arrays data and shifted as they are before that iteration.
RECURSIVE ShiftLoop(_, _, _, _, _)
ShiftLoop(data, shiftedSoFar, width, height, idx) ==
    IF idx >= width * height THEN [data |-> data, shifted |-> shiftedSoFar]
    ELSE LET x == idx % width
             y == idx \div width
             newX == NewX(x, width \div 2, width)
             newY == NewY(y, height \div 2, height)
         IN  ShiftLoop(data,
                       [shiftedSoFar EXCEPT ![newY * width + newX] = data[y * width + x]],
                       width, height, idx + 1)

\* Utils.fftShift(data, width, height): the arrays data and shifted when it
\* returns shifted, which starts as new Float32Array(data.length).
FftShift(data, width, height) ==
    ShiftLoop(data, [i \in DOMAIN data |-> 0], width, height, 0)

\* The field of the given size whose values are all different.
Labelled(w, h) == [i \in 0..(w * h - 1) |-> i + 1]

\* fftShift is about to be called with a field.
InitShift ==
    /\ duration = 1
    /\ currentTime = Num(0)
    /\ seeking = FALSE
    /\ shown = Num(0)
    /\ listeners = <<>>
    /\ dispatch = <<>>
    /\ active = 0
    /\ run = [r \in Runs |-> IdleRun]
    /\ abandoned = {}
    /\ captureThrew = {}
    /\ seekLost = {}
    /\ fftThrew = {}
    /\ fftResults = <<>>
    /\ analysis = <<>>
    /\ spectrum = NoField
    /\ normalized = <<>>
    /\ classified = <<>>
    /\ \E w \in 1..MaxDim, h \in 1..MaxDim :
         \E d \in {Labelled(w, h)}
                   \cup (IF w * h <= MaxCells THEN [0..(w * h - 1) -> {0, 1}] ELSE {}) :
           field = [width |-> w, height |-> h, data |-> d]
    /\ shifted = <<>>
    /\ fft = IdleFFT
    /\ ExtraAtRest

\* shifted = Utils.fftShift(field.data, width, height) is called and
\* returns.
FftShiftCall ==
    /\ shifted = <<>>
    /\ LET r == FftShift(field.data, field.width, field.height)
       IN  /\ field' = [field EXCEPT !.data = r.data]
           /\ shifted' = << r.shifted >>
    /\ UNCHANGED <<videoVars, runVars, detectVars, extraVars, spectrum, normalized, classified,
                   fft>>

\* Utils.fftShift is called again, with the array the first call returned.
FftShiftAgain ==
    /\ Len(shifted) = 1
    /\ LET r == FftShift(shifted[1], field.width, field.height)
       IN  shifted' = << r.data, r.shifted >>
    /\ UNCHANGED <<videoVars, runVars, detectVars, extraVars, spectrum, normalized, classified,
                   field, fft>>

NextShift == FftShiftCall \/ FftShiftAgain

SpecShift == InitShift /\ [][NextShift]_vars

(* ------------------ Utils.applyHighPassFilter, on its own -------------- *)

\* const kernel = [[-1, -1, -1], [-1, 8, -1], [-1, -1, -1]], rows and columns
\* counted from 1.
Kernel == << <<-1, -1, -1>>, <<-1, 8, -1>>, <<-1, -1, -1>> >>

\* The sum the two kernel loops compute for the cell at column x, row y.
KernelSum(data, width, x, y) ==
    LET term(ky, kx) == data[(y + ky) * width + (x + kx)] * Kernel[ky + 2][kx + 2]
    IN  term(-1, -1) + term(-1, 0) + term(-1, 1)
        + term(0, -1) + term(0, 0) + term(0, 1)
        + term(1, -1) + term(1, 0) + term(1, 1)

\* Mutant of OutIndex: the sum is written at the top left cell of the
\* window.
OutIndexTopLeft(x, y, width) == (y - 1) * width + (x - 1)

\* filtered[y * width + x] = sum
OutIndex(x, y, width) == y * width + x

\* The loops of applyHighPassFilter from the iteration at column x, row y
\* on, over the arrays data and filtered as they are before it.
RECURSIVE FilterLoop(_, _, _, _, _, _)
FilterLoop(data, filteredSoFar, width, height, x, y) ==
    IF ~(y < height - 1) THEN [data |-> data, filtered |-> filteredSoFar]
    ELSE IF ~(x < width - 1) THEN FilterLoop(data, filteredSoFar, width, height, 1, y + 1)
    ELSE FilterLoop(data,
                    [filteredSoFar EXCEPT ![OutIndex(x, y, width)] =
                                              KernelSum(data, width, x, y)],
                    width, height, x + 1, y)

\* Utils.applyHighPassFilter(data, width, height): the arrays data and
\* filtered when it returns filtered, which starts as
\* new Float32Array(data.length).
ApplyHighPassFilter(data, width, height) ==
    FilterLoop(data, [i \in DOMAIN data |-> 0], width, height, 1, 1)

\* The image of the given size whose values are the squares.
Squares(w, h) == [i \in 0..(w * h - 1) |-> i * i]

\* applyHighPassFilter is about to be called with an image.
InitFilter ==
    /\ duration = 1
    /\ currentTime = Num(0)
    /\ seeking = FALSE
    /\ shown = Num(0)
    /\ listeners = <<>>
    /\ dispatch = <<>>
    /\ active = 0
    /\ run = [r \in Runs |-> IdleRun]
    /\ abandoned = {}
    /\ captureThrew = {}
    /\ seekLost = {}
    /\ fftThrew = {}
    /\ fftResults = <<>>
    /\ analysis = <<>>
    /\ spectrum = NoField
    /\ normalized = <<>>
    /\ classified = <<>>
    /\ \E w \in 1..MaxDim, h \in 1..MaxDim :
         \E d \in {Squares(w, h)}
                   \cup (IF w * h <= MaxFilterCells
                         THEN [0..(w * h - 1) -> {0, 1}] ELSE {}) :
           field = [width |-> w, height |-> h, data |-> d]
    /\ shifted = <<>>
    /\ fft = IdleFFT
    /\ filtered = <<>>
    /\ AppAtRest

\* filtered = Utils.applyHighPassFilter(field.data, width, height) is called
\* and returns.
ApplyHighPassFilterCall ==
    /\ filtered = <<>>
    /\ LET r == ApplyHighPassFilter(field.data, field.width, field.height)
       IN  /\ field' = [field EXCEPT !.data = r.data]
           /\ filtered' = << r.filtered >>
    /\ UNCHANGED <<videoVars, runVars, detectVars, appVars, spectrum, normalized,
                   classified, shifted, fft>>

NextFilter == ApplyHighPassFilterCall

SpecFilter == InitFilter /\ [][NextFilter]_vars

(* --------------------------- fft1D, on its own ------------------------- *)

\* The numbers fft1D computes with, for lengths below 16: <<a, b, d>> is
\* (a + b * sqrt(2)) / d with integers a, b and d > 0, in lowest terms.
Surd(a, b, d) ==
    LET g == GCD(GCD(Abs(a), Abs(b)), d)
    IN  <<a \div g, b \div g, d \div g>>

SurdInt(n) == <<n, 0, 1>>

SurdAdd(p, q) == Surd(p[1] * q[3] + q[1] * p[3], p[2] * q[3] + q[2] * p[3], p[3] * q[3])

SurdSub(p, q) == Surd(p[1] * q[3] - q[1] * p[3], p[2] * q[3] - q[2] * p[3], p[3] * q[3])

SurdMul(p, q) ==
    Surd(p[1] * q[1] + 2 * p[2] * q[2], p[1] * q[2] + p[2] * q[1], p[3] * q[3])

\* Math.cos(angle) and Math.sin(angle) for angle = -2 * Math.PI / len.
Cos(len) ==
    CASE len = 2 -> SurdInt(-1)
      [] len = 4 -> SurdInt(0)
      [] len = 8 -> <<0, 1, 2>>

Sin(len) ==
    CASE len = 2 -> SurdInt(0)
      [] len = 4 -> SurdInt(-1)
      [] len = 8 -> <<0, -1, 2>>

\* Mutant of SwapNeeded: every pair of different indices is swapped.
SwapUnlessEqual(i, j) == i # j

\* if (i < j)
SwapNeeded(i, j) == i < j

\* Mutant of ReversalRemains: the loop also runs for i = n - 1.
ReversalRemainsToEnd(i, n) == i < n

\* i < n - 1
ReversalRemains(i, n) == i < n - 1

\* Mutant of StageRemains: the last stage is left out.
StageRemainsBelow(len, n) == len < n

\* len <= n
StageRemains(len, n) == len <= n

\* The input with real[0] = 1 and every other entry 0.
Impulse(n) ==
    [real |-> [i \in 0..(n - 1) |-> IF i = 0 THEN SurdInt(1) ELSE SurdInt(0)],
     imag |-> [i \in 0..(n - 1) |-> SurdInt(0)]]

\* The input whose 2 * n entries are all different.
Distinct(n) ==
    [real |-> [i \in 0..(n - 1) |-> SurdInt(i + 1)],
     imag |-> [i \in 0..(n - 1) |-> SurdInt(-(i + 1))]]

\* fft1D(real, imag) has been called with two arrays of the same length.
InitFFT ==
    /\ duration = 1
    /\ currentTime = Num(0)
    /\ seeking = FALSE
    /\ shown = Num(0)
    /\ listeners = <<>>
    /\ dispatch = <<>>
    /\ active = 0
    /\ run = [r \in Runs |-> IdleRun]
    /\ abandoned = {}
    /\ captureThrew = {}
    /\ seekLost = {}
    /\ fftThrew = {}
    /\ fftResults = <<>>
    /\ analysis = <<>>
    /\ spectrum = NoField
    /\ normalized = <<>>
    /\ classified = <<>>
    /\ field = NoField
    /\ shifted = <<>>
    /\ ExtraAtRest
    /\ \E n \in 0..MaxLen :
         \E input \in {Impulse(n), Distinct(n)} :
           fft = [IdleFFT EXCEPT !.pc = "called", !.n = n,
                                 !.real = input.real, !.imag = input.imag,
                                 !.inReal = input.real, !.inImag = input.imag]

FFTUnchanged ==
    UNCHANGED <<videoVars, runVars, detectVars, extraVars, spectrum, normalized, classified,
                field, shifted>>

\* const n = real.length; if (n <= 1) return; let j = 0; let i = 0.
Fft1DCall ==
    /\ fft.pc = "called"
    /\ fft' = IF fft.n <= 1
              THEN [fft EXCEPT !.pc = "returned"]
              ELSE [fft EXCEPT !.pc = "bitReversal", !.i = 0, !.j = 0]
    /\ FFTUnchanged

\* One iteration of the bit-reversal loop up to its while: the swap if
\* i < j, and let k = n >> 1.
BitReversalSwap ==
    /\ fft.pc = "bitReversal"
    /\ ReversalRemains(fft.i, fft.n)
    /\ LET i == fft.i
           j == fft.j
       IN  fft' = IF SwapNeeded(i, j)
                  THEN [fft EXCEPT !.real = [@ EXCEPT ![i] = fft.real[j], ![j] = fft.real[i]],
                                   !.imag = [@ EXCEPT ![i] = fft.imag[j], ![j] = fft.imag[i]],
                                   !.swaps = Append(@, <<i, j>>),
                                   !.k = fft.n \div 2,
                                   !.pc = "while"]
                  ELSE [fft EXCEPT !.k = fft.n \div 2, !.pc = "while"]
    /\ FFTUnchanged

\* while (k <= j) { j -= k; k >>= 1; }: one iteration.
WhileBody ==
    /\ fft.pc = "while"
    /\ fft.k <= fft.j
    /\ fft' = [fft EXCEPT !.j = fft.j - fft.k, !.k = fft.k \div 2]
    /\ FFTUnchanged

\* The while ends: j += k; i++.
WhileExit ==
    /\ fft.pc = "while"
    /\ ~(fft.k <= fft.j)
    /\ fft' = [fft EXCEPT !.j = fft.j + fft.k, !.i = fft.i + 1, !.pc = "bitReversal"]
    /\ FFTUnchanged

\* The bit-reversal loop ends (i = n - 1); the stage loop starts with
\* len = 2, i = 0, wReal = 1, wImag = 0, j = 0.
BitReversalDone ==
    /\ fft.pc = "bitReversal"
    /\ ~ReversalRemains(fft.i, fft.n)
    /\ fft' = [fft EXCEPT !.pc = "stages", !.len = 2, !.i = 0, !.j = 0, !.k = 0,
                          !.wReal = SurdInt(1), !.wImag = SurdInt(0)]
    /\ FFTUnchanged

\* One iteration of the innermost loop, and the loop steps that follow it:
\* j++; at j = halfLen, i += len with wReal = 1, wImag = 0 and j = 0; at
\* i >= n, len <<= 1 with i = 0.
Butterfly ==
    /\ fft.pc = "stages"
    /\ StageRemains(fft.len, fft.n)
    /\ LET len == fft.len
           halfLen == len \div 2
           evenIdx == fft.i + fft.j
           oddIdx == fft.i + fft.j + halfLen
           tReal == SurdSub(SurdMul(fft.wReal, fft.real[oddIdx]),
                            SurdMul(fft.wImag, fft.imag[oddIdx]))
           tImag == SurdAdd(SurdMul(fft.wReal, fft.imag[oddIdx]),
                            SurdMul(fft.wImag, fft.real[oddIdx]))
           nextWReal == SurdSub(SurdMul(fft.wReal, Cos(len)), SurdMul(fft.wImag, Sin(len)))
           nextWImag == SurdAdd(SurdMul(fft.wReal, Sin(len)), SurdMul(fft.wImag, Cos(len)))
           innerEnds == ~(fft.j + 1 < halfLen)
           stageEnds == innerEnds /\ ~(fft.i + len < fft.n)
       IN  fft' = [fft EXCEPT
               !.real = [@ EXCEPT ![oddIdx] = SurdSub(fft.real[evenIdx], tReal),
                                  ![evenIdx] = SurdAdd(fft.real[evenIdx], tReal)],
               !.imag = [@ EXCEPT ![oddIdx] = SurdSub(fft.imag[evenIdx], tImag),
                                  ![evenIdx] = SurdAdd(fft.imag[evenIdx], tImag)],
               !.wReal = IF innerEnds THEN SurdInt(1) ELSE nextWReal,
               !.wImag = IF innerEnds THEN SurdInt(0) ELSE nextWImag,
               !.j = IF innerEnds THEN 0 ELSE fft.j + 1,
               !.i = IF stageEnds THEN 0 ELSE IF innerEnds THEN fft.i + len ELSE fft.i,
               !.len = IF stageEnds THEN len * 2 ELSE len]
    /\ FFTUnchanged

\* The stage loop ends (len > n): fft1D returns.
Fft1DReturn ==
    /\ fft.pc = "stages"
    /\ ~StageRemains(fft.len, fft.n)
    /\ fft' = [fft EXCEPT !.pc = "returned"]
    /\ FFTUnchanged

NextFFT ==
    \/ Fft1DCall
    \/ BitReversalSwap
    \/ WhileBody
    \/ WhileExit
    \/ BitReversalDone
    \/ Butterfly
    \/ Fft1DReturn

SpecFFT == InitFFT /\ [][NextFFT]_vars

\* fft1D runs on one thread that nothing suspends: while a step of it can
\* change the state, one is taken.
SpecFFTFair == SpecFFT /\ WF_vars(NextFFT)

(* ========================= claims: the pipeline ======================== *)

\* Number of frames run r has captured so far: pushed, or resolved and about
\* to be pushed.
Captured(r) == Len(run[r].frames) + Len(run[r].frameData)

\* The 'seeked' listeners of run r attached to the video.
ListenersOf(r) == { n \in 1..Len(listeners) : listeners[n].run = r }

\* C1: the values passed to the progress callback over a run (extraction
\* phase, then FFT phase) are non-decreasing: no call receives a value
\* smaller than an earlier call's.
C1_ProgressNonDecreasing ==
    \A r \in Runs :
      \A m, n \in 1..Len(run[r].progress) :
        m < n => RatLe(run[r].progress[m].value, run[r].progress[n].value)

\* C2: progress is partitioned by phase: every value reported while frames
\* are acquired lies in [0, 50]; every value reported after a frame's FFT
\* lies in (50, 100], the k-th of N processed frames reporting
\* 50 + 50 * k / N, so that the N-th reports 100.
C2_ProgressPartitioned ==
    \A r \in Runs :
      \A n \in 1..Len(run[r].progress) :
        LET e == run[r].progress[n]
            k == n - sampleFrames
        IN  /\ e.phase = "extract" =>
                 RatLe(Num(0), e.value) /\ RatLe(e.value, Num(50))
            /\ e.phase = "fft" =>
                 /\ RatLt(Num(50), e.value) /\ RatLe(e.value, Num(100))
                 /\ e.value = RatAdd(Num(50), Rat(50 * k, sampleFrames))

\* C3: a run requests its frames at the timestamps D*i/(N+1), i = 1..N, in
\* increasing order of i, N of them by the time it returns; no timestamp is
\* requested twice and neither 0 nor D is requested.
C3_TimestampsEvenlySpaced ==
    \A r \in Runs :
      LET q == run[r].requests
      IN  /\ Len(q) <= sampleFrames
          /\ run[r].pc = "resolved" => Len(q) = sampleFrames
          /\ \A n \in 1..Len(q) :
               /\ q[n][2] > 0
               /\ q[n][1] * (sampleFrames + 1) = duration * n * q[n][2]
               /\ q[n] # Num(0)
               /\ q[n] # Num(duration)
          /\ \A m, n \in 1..Len(q) : m < n => RatLt(q[m], q[n])
          /\ run[r].pc = "awaitSeek" /\ ListenersOf(r) # {} /\ r \notin captureThrew
               => run[r].i = Len(q)

\* C3 witness: a run on a video of duration 10 has returned after requesting
\* 10/6, 20/6, 30/6, 40/6, 50/6 in that order.
C3_Witness ==
    /\ duration = 10
    /\ \E r \in Runs :
         /\ run[r].pc = "resolved"
         /\ run[r].requests = << <<5, 3>>, <<10, 3>>, <<5, 1>>, <<20, 3>>, <<25, 3>> >>

\* C4: within a run, acquisition is sequential: the seek for timestamp i+1
\* is issued only after the frame for timestamp i has been captured, and the
\* run never has two acquisitions in flight against the video.
C4_SequentialAcquisition ==
    \A r \in Runs :
      /\ Cardinality(ListenersOf(r)) <= 1
      /\ run[r].pc \notin Settled => Len(run[r].requests) <= Captured(r) + 1
      /\ \A n \in ListenersOf(r) : listeners[n].i = run[r].i

\* C4 witness: a run has captured its first frame and waits on its second seek.
C4_Witness ==
    \E r \in Runs :
      /\ run[r].pc = "awaitSeek"
      /\ Len(run[r].requests) = 2
      /\ Captured(r) = 1
      /\ Cardinality(ListenersOf(r)) = 1

\* C5: if the frame source fails to produce a frame for a requested
\* timestamp (the capture in the 'seeked' handler throws, or the seek never
\* completes), the run ends Failed: the promise of analyzeVideo rejects
\* instead of staying pending.
C5_FrameFailureRejects ==
    BetweenTasks =>
      \A r \in captureThrew \cup seekLost : run[r].pc = "rejected"

\* What every step keeps of the all-or-nothing contract: a step that resolves
\* run r does so from N requests, N frames and N transforms of those frames,
\* with the mean over them as the result; a throw rejects; only a resolved
\* run carries a result.
C6_Step ==
    \A r \in Runs :
      /\ run'[r].pc = "resolved" /\ run[r].pc # "resolved" =>
           /\ Len(run[r].requests) = sampleFrames
           /\ Len(run[r].frames) = sampleFrames
           /\ Len(run[r].fftResults) = sampleFrames
           /\ \A n \in 1..sampleFrames :
                run[r].fftResults[n].frame = run[r].frames[n]
           /\ r \notin fftThrew
           /\ Len(run'[r].result) = 1
           /\ run'[r].result[1].patterns =
                AveragePatterns([n \in 1..sampleFrames |-> FrameScores(run[r].frames[n])])
      /\ r \in fftThrew' => run'[r].pc = "rejected"
      /\ run'[r].pc # "resolved" => run'[r].result = <<>>

\* C6: a run is all-or-nothing: analyzeVideo returns a result only after all
\* N requested frames were acquired and each was transformed, the aggregate
\* is computed over exactly those N frames in order, and if a per-frame step
\* throws the run rejects and returns no result.
C6_AllOrNothing == [][C6_Step]_vars

\* C6 witness: a run has returned a result.
C6_Witness ==
    \E r \in Runs : run[r].pc = "resolved" /\ Len(run[r].result) = 1

\* A run started after run r is under way or over.
LaterRunStarted(r) == \E q \in Runs : q > r /\ run[q].pc # "idle"

\* Every frame of a run that follows an abandoned one shows the timestamp
\* that run requested for it.
C7_LaterFramesOwnSeek ==
    \A r \in Runs :
      (\E q \in abandoned : q < r) =>
        \A n \in 1..Len(run[r].frames) :
          run[r].frames[n].time = run[r].requests[n]

\* A step keeps the later run's frames right and leaves an abandoned run
\* where it is: not resumed, no new seek request.
C7_Step ==
    /\ C7_LaterFramesOwnSeek'
    /\ \A r \in abandoned :
         LaterRunStarted(r) =>
           /\ run'[r].pc = run[r].pc
           /\ run'[r].requests = run[r].requests

\* C7: abandoning a run suspended on a pending seek does not corrupt a later
\* run on the same video: every frame the later run captures shows the
\* timestamp the later run requested for it, and once the later run has
\* started the abandoned run is neither resumed by its leftover listener nor
\* moves the video position.
C7_AbandonedRunIsolated == [][C7_Step]_vars

(* ======================= claims: detectAIPatterns ====================== *)

\* A score n / ScoreDen as the integer n.
Units(x) == x[1] * (ScoreDen \div x[2])

\* 100 * ScoreDen * aiScore and 100 * ScoreDen * realScore of the score set
\* given to detectAIPatterns, in integers.
AiUnits ==
    LET a == fftResults[1]
    IN  30 * Units(a.gridPattern) + 25 * Units(a.brightDots)
        + 25 * Units(a.crossShape) + 20 * Units(a.checkerboard)

RealUnits == 100 * Units(fftResults[1].smoothGradient)

\* C8: isAIGenerated is true iff aiScore = 0.30*gridPattern + 0.25*brightDots
\* + 0.25*crossShape + 0.20*checkerboard is strictly greater than realScore =
\* smoothGradient; a tie is NOT AI-generated.
C8_StrictDecision ==
    analysis # <<>> => (analysis[1].isAI <=> AiUnits > RealUnits)

\* C8 witness: a tie between non-zero scores, decided as not AI-generated.
C8_Witness ==
    /\ analysis # <<>>
    /\ AiUnits = RealUnits
    /\ RealUnits > 0
    /\ ~analysis[1].isAI

\* C9: confidence = min(|aiScore - realScore| * 100, 99), so it lies in
\* [0, 99], is 0 exactly when the scores are equal, and is 99, not 100, when
\* they differ by 1.
C9_ConfidenceCapped ==
    analysis # <<>> =>
      LET c == analysis[1].confidence
          d == Abs(AiUnits - RealUnits)
      IN  /\ c = Rat(IF d < 99 * ScoreDen THEN d ELSE 99 * ScoreDen, ScoreDen)
          /\ RatLe(Num(0), c) /\ RatLe(c, Num(99))
          /\ c = Num(0) <=> AiUnits = RealUnits

\* C9 witness: the two scores differ by 1 and the confidence is 99.
C9_Witness ==
    /\ analysis # <<>>
    /\ AiUnits - RealUnits = 100 * ScoreDen
    /\ analysis[1].confidence = Num(99)

\* C10: details is determined by the verdict: not AI-generated gives exactly
\* the three natural-footage findings in order; AI-generated gives, in the
\* order grid, dots, cross, checkerboard, one finding for each score above
\* its threshold (0.5, 0.5, 0.5, 0.4) and nothing else; a score equal to its
\* threshold gives no finding.
C10_DetailsByVerdict ==
    analysis # <<>> =>
      LET a == fftResults[1]
          Over(x, tenths) == 10 * Units(x) > tenths * ScoreDen
          Finding(cond, text) == IF cond THEN <<text>> ELSE <<>>
      IN  IF analysis[1].isAI
          THEN analysis[1].details =
                 Finding(Over(a.gridPattern, 5),
                         "Strong grid pattern detected - characteristic of CNN upsampling")
                 \o Finding(Over(a.brightDots, 5),
                         "Regular bright dots found - indicates periodic artifacts")
                 \o Finding(Over(a.crossShape, 5),
                         "Cross/plus shape pattern - common in GAN-generated content")
                 \o Finding(Over(a.checkerboard, 4),
                         "Checkerboard effect visible - typical of diffusion models")
          ELSE analysis[1].details =
                 << "Smooth, natural frequency distribution detected",
                    "No geometric patterns or regular artifacts found",
                    "Frequency spectrum matches real camera footage" >>

\* C10 witness: an AI verdict whose checkerboard score equals its threshold
\* 0.4: the grid finding is reported and the checkerboard finding is not.
C10_Witness ==
    /\ analysis # <<>>
    /\ analysis[1].isAI
    /\ fftResults[1].checkerboard = Rat(4, 10)
    /\ analysis[1].details = <<GridFinding>>

(* ==================== claims: the returned spectrum ==================== *)

\* C11: the spectrum returned in the analysis result is the spectrum of the
\* first sampled frame, the one requested at the smallest timestamp,
\* whatever the frames' scores are and whatever the verdict is.
C11_FirstFrameSpectrum ==
    \A r \in Runs :
      run[r].pc = "resolved" =>
        LET first == [time |-> run[r].requests[1]]
        IN  /\ run[r].result[1].fftData =
                 << [frame |-> first, scores |-> FrameScores(first)] >>
            /\ \A n \in 1..Len(run[r].requests) :
                 RatLe(run[r].requests[1], run[r].requests[n])

\* A run resolved with the verdict "AI generated" taken from its later
\* frames, while the spectrum it returns is that of its first frame, whose
\* scores are the natural ones.
C11_Witness ==
    \E r \in Runs :
      /\ run[r].pc = "resolved"
      /\ run[r].result[1].isAIGenerated
      /\ run[r].result[1].fftData[1].frame.time = Time(sampleFrames, 1)
      /\ run[r].result[1].fftData[1].scores = NaturalScores

(* ==================== claims: the aggregate scores ===================== *)

\* The five keys of a pattern score set.
Keys == {"gridPattern", "brightDots", "crossShape", "checkerboard", "smoothGradient"}

\* Sum of the scores of one key over a list of per-frame analyses.
RECURSIVE KeySum(_, _)
KeySum(analyses, key) ==
    IF analyses = <<>> THEN Num(0)
    ELSE RatAdd(KeySum(Tail(analyses), key), Head(analyses)[key])

\* C12: each of the five aggregate scores detectAIPatterns returns is the
\* arithmetic mean of the per-frame scores over all frames passed in, and
\* with per-frame scores in [0,1] it is a well-defined number in [0,1] for
\* every number of frames.
C12_AggregateIsMean ==
    analysis # <<>> =>
      \A key \in Keys :
        LET m == analysis[1].patterns[key]
        IN  /\ ~IsNaN(m)
            /\ RatMul(m, Num(Len(fftResults))) = KeySum(fftResults, key)
            /\ RatLe(Num(0), m)
            /\ RatLe(m, Num(1))

\* The part of C12 that holds: over a non-empty list every aggregate score
\* is the mean and lies in [0,1].
C12_MeanOfNonEmpty == fftResults # <<>> => C12_AggregateIsMean

(* =============== claims: normalize and the classifier ================== *)

\* Every value of the spectrum given is v.
AllEqual(v) ==
    \A y \in 0..(spectrum.height - 1), x \in 0..(spectrum.width - 1) :
      spectrum.data[y][x] = v

\* Number of points of a width x height array that have four neighbours.
Interior(width, height) ==
    IF width >= 2 /\ height >= 2 THEN (width - 2) * (height - 2) ELSE 0

\* Number of points the grid loop of analyzeFFTPattern visits.
GridPoints(width, height) ==
    Cardinality(GridSteps(height)) * Cardinality(GridSteps(width))

\* The verdict detectAIPatterns reaches on frames that all have the scores
\* analyzeFFTPattern returned.
Verdict == DetectAIPatterns(<< classified[1] >>)

\* C13: the classifier run on a spectrum whose every value is 0 yields all
\* five scores equal to 0, and hence the verdict isAIGenerated = false with
\* confidence 0.
C13_ZeroSpectrumAllZero ==
    (AllEqual(0) /\ classified # <<>>) =>
      /\ classified[1] = ZeroPatterns
      /\ ~Verdict.isAI
      /\ Verdict.confidence = Num(0)

\* C13 as the code has it: on a spectrum whose every value is 0 the four
\* artifact scores are 0 and smoothGradient is the share of the points with
\* four neighbours, (width-2)(height-2)/(width*height); the verdict is
\* isAIGenerated = false with confidence min(100 * smoothGradient, 99).
C13_ZeroSpectrumSmooth ==
    (AllEqual(0) /\ classified # <<>>) =>
      LET smooth == Rat(Interior(spectrum.width, spectrum.height),
                        spectrum.width * spectrum.height)
      IN  /\ classified[1] = ScoreSet(Num(0), Num(0), Num(0), Num(0), smooth)
          /\ ~Verdict.isAI
          /\ Verdict.confidence = MathMin(RatMul(smooth, Num(100)), Num(99))

\* The all-zero spectrum of side frameSize has been classified.
C13_Witness ==
    /\ AllEqual(0)
    /\ spectrum.width = frameSize
    /\ classified # <<>>
    /\ classified[1].smoothGradient = Rat(254 * 254, 256 * 256)

\* C14: the classifier run on a spectrum whose every value is 255 yields
\* gridPattern and brightDots at their maximum clamp (every visited point
\* counted: 1 for a 256 x 256 spectrum) and smoothGradient near 1 (every
\* point with four neighbours counted).
C14_FullSpectrumSaturates ==
    (AllEqual(255) /\ classified # <<>>) =>
      /\ classified[1].gridPattern =
           Clamped(GridPoints(spectrum.width, spectrum.height), 100)
      /\ classified[1].brightDots = Clamped(spectrum.width * spectrum.height, 500)
      /\ classified[1].smoothGradient =
           Rat(Interior(spectrum.width, spectrum.height),
               spectrum.width * spectrum.height)

\* C15: for every square spectrum each of the five scores analyzeFFTPattern
\* returns is a number in [0,1].
C15_ScoresInUnitInterval ==
    classified # <<>> =>
      \A key \in Keys :
        /\ RatLe(Num(0), classified[1][key])
        /\ RatLe(classified[1][key], Num(1))

\* A classified spectrum whose bright upper half holds more than 100 grid
\* points and more than 500 bright points: both clamps are in effect.
C15_Witness ==
    /\ classified # <<>>
    /\ spectrum.width = frameSize
    /\ \A y \in 0..(frameSize - 1), x \in 0..(frameSize - 1) :
         spectrum.data[y][x] = PatternValue("halfBright", x, y)
    /\ classified[1].gridPattern = Num(1)
    /\ classified[1].brightDots = Num(1)

\* The values that occur in an array kept by rows.
RowValues(rows, width, height) ==
    UNION { { rows[y][x] : x \in 0..(width - 1) } : y \in 0..(height - 1) }

\* C20: normalize never divides by zero: for an input whose values are all
\* equal every output value is 0; for every other input every output value
\* lies in [0, 255], the minimum is mapped to 0 and the maximum to 255.
C20_NormalizeRange ==
    normalized # <<>> =>
      LET w == spectrum.width
          h == spectrum.height
          values == RowValues(spectrum.data, w, h)
          min == SetMin(values)
          max == SetMax(values)
      IN  IF max = min
          THEN RowValues(normalized[1], w, h) = {0}
          ELSE \A y \in 0..(h - 1), x \in 0..(w - 1) :
                 /\ normalized[1][y][x] \in 0..255
                 /\ spectrum.data[y][x] = min => normalized[1][y][x] = 0
                 /\ spectrum.data[y][x] = max => normalized[1][y][x] = 255

\* A constant array of a non-zero value has been normalized to zeros.
C20_Witness ==
    /\ normalized # <<>>
    /\ AllEqual(255)
    /\ RowValues(normalized[1], spectrum.width, spectrum.height) = {0}

(* ========================= claims: fftShift ============================ *)

\* The index the value at index i is moved to:
\* ((x + w/2) mod w, (y + h/2) mod h) for x = i mod w, y = i div w.
Target(i, w, h) ==
    (((i \div w) + h \div 2) % h) * w + (((i % w) + w \div 2) % w)

\* One step of C19, for a field of even width and height.
C19_Step ==
    (field.width % 2 = 0 /\ field.height % 2 = 0) =>
      LET w == field.width
          h == field.height
          cells == 0..(w * h - 1)
      IN  /\ field' = field
          /\ \A j \in cells : Cardinality({ i \in cells : Target(i, w, h) = j }) = 1
          /\ Len(shifted') >= 1 =>
               /\ DOMAIN shifted'[1] = cells
               /\ \A i \in cells : shifted'[1][Target(i, w, h)] = field.data[i]
          /\ Len(shifted) = 1 => shifted'[1] = shifted[1]
          /\ Len(shifted') = 2 => shifted'[2] = field.data

\* C19: for even width and height fftShift is a permutation and an
\* involution: the value at (x, y) moves to ((x + w/2) mod w, (y + h/2)
\* mod h), every output cell receives exactly one input cell, shifting
\* twice gives the field back, and the array given is not modified.
C19_ShiftInvolution == [][C19_Step]_vars

\* A field of even width and height with all values different has been
\* shifted twice: the first result differs from it, the second equals it.
C19_Witness ==
    /\ field.width = 4
    /\ field.height = 2
    /\ field.data = Labelled(4, 2)
    /\ Len(shifted) = 2
    /\ shifted[1] # field.data
    /\ shifted[2] = field.data

(* =========================== claims: fft1D ============================= *)

IsPowerOfTwo(n) == n \in {1, 2, 4, 8, 16}

\* Number of bits of the indices of an array of length n = 2^bits.
RECURSIVE Log2(_)
Log2(n) == IF n <= 1 THEN 0 ELSE 1 + Log2(n \div 2)

\* The index whose bits bits are those of i in reverse order.
RECURSIVE BitReverse(_, _)
BitReverse(i, bits) ==
    IF bits = 0 THEN 0
    ELSE (i % 2) * 2^(bits - 1) + BitReverse(i \div 2, bits - 1)

\* C16: fft1D rejects invalid lengths: called with arrays of length 0 or of
\* a length that is not a power of two it fails with an InvalidLength
\* error; it does not return normally, produce output or run on.
C16_InvalidLengthRejected ==
    (fft.pc \notin {"idle", "called"} /\ ~IsPowerOfTwo(fft.n)) =>
      fft.pc = "InvalidLength"

\* The first phase of fft1D is over and the second has not started.
FirstPhaseDone == fft.pc = "stages" /\ fft.len = 2 /\ fft.i = 0 /\ fft.j = 0

\* C17: for every power-of-two length n the first phase of fft1D leaves both
\* arrays permuted by bit reversal: the element at index i is the original
\* element at the index with the log2(n) bits of i reversed, in real and in
\* imag alike, and no unordered pair of indices is swapped more than once.
C17_BitReversal ==
    IsPowerOfTwo(fft.n) =>
      /\ \A a, b \in 1..Len(fft.swaps) :
           {fft.swaps[a][1], fft.swaps[a][2]} = {fft.swaps[b][1], fft.swaps[b][2]}
             => a = b
      /\ FirstPhaseDone =>
           \A i \in 0..(fft.n - 1) :
             /\ fft.real[i] = fft.inReal[BitReverse(i, Log2(fft.n))]
             /\ fft.imag[i] = fft.inImag[BitReverse(i, Log2(fft.n))]

\* The first phase is over on 8 different values: 1 and 4, 3 and 6 have
\* been swapped.
C17_Witness ==
    /\ FirstPhaseDone
    /\ fft.n = 8
    /\ fft.inReal = Distinct(8).real
    /\ fft.swaps = << <<1, 4>>, <<3, 6>> >>
    /\ fft.real[1] = SurdInt(5)

\* C18: fft1D computes the forward DFT without scaling: for the impulse
\* input of a power-of-two length every output entry has real part 1 and
\* imaginary part 0.
C18_ImpulseResponse ==
    (fft.pc = "returned" /\ IsPowerOfTwo(fft.n) /\ fft.inReal = Impulse(fft.n).real
       /\ fft.inImag = Impulse(fft.n).imag) =>
      \A i \in 0..(fft.n - 1) :
        fft.real[i] = SurdInt(1) /\ fft.imag[i] = SurdInt(0)

\* fft1D has returned from the impulse of length 8.
C18_Witness ==
    /\ fft.pc = "returned"
    /\ fft.n = 8
    /\ fft.inReal = Impulse(8).real
    /\ fft.inImag = Impulse(8).imag
    /\ fft.real = [i \in 0..7 |-> SurdInt(1)]

(* ==================== claims: applyHighPassFilter ====================== *)

\* The cell idx of a width x height array lies in the first or last row or
\* in the first or last column.
OnBorder(idx, width, height) ==
    \/ idx \div width \in {0, height - 1}
    \/ idx % width \in {0, width - 1}

\* One step of C21.
C21_Step ==
    /\ field' = field
    /\ filtered' # <<>> =>
         /\ DOMAIN filtered'[1] = 0..(field.width * field.height - 1)
         /\ \A idx \in 0..(field.width * field.height - 1) :
              OnBorder(idx, field.width, field.height) => filtered'[1][idx] = 0

\* C21: for every image and every width and height the output of
\* applyHighPassFilter is 0 at every cell of the first and last row and of
\* the first and last column, and the image given is left unchanged.
C21_BorderZero == [][C21_Step]_vars

\* A 3 x 3 image with a single 1 at its centre has been filtered: the centre
\* of the output is 8 and the eight border cells are 0.
C21_Witness ==
    /\ field.width = 3
    /\ field.height = 3
    /\ field.data = [i \in 0..8 |-> IF i = 4 THEN 1 ELSE 0]
    /\ filtered = << [i \in 0..8 |-> IF i = 4 THEN 8 ELSE 0] >>

(* ====================== claims: fft1D terminates ======================= *)

\* The indices the next swap or butterfly reads and writes lie within the
\* arrays, the running index j does, and the step k is at least 1 while
\* the while loop runs.
IndicesInRange ==
    LET cells == 0..(fft.n - 1)
    IN  /\ fft.pc \in {"bitReversal", "while"} => fft.i \in cells /\ fft.j \in cells
        /\ fft.pc = "while" => fft.k >= 1
        /\ (fft.pc = "stages" /\ StageRemains(fft.len, fft.n)) =>
             /\ fft.i + fft.j \in cells
             /\ fft.i + fft.j + fft.len \div 2 \in cells

\* C22: for every power-of-two length n >= 2 fft1D terminates, and on the
\* way the running index j stays within 0..n-1, the step k stays >= 1, and
\* no swap or butterfly touches an index outside the arrays.
C22_TerminatesInBounds ==
    /\ []((IsPowerOfTwo(fft.n) /\ fft.n >= 2) => IndicesInRange)
    /\ (fft.pc = "called" /\ IsPowerOfTwo(fft.n) /\ fft.n >= 2) ~> fft.pc = "returned"

\* fft1D has returned from 8 different values, after the swaps of the first
\* phase and the three stages of the second.
C22_Witness ==
    /\ fft.pc = "returned"
    /\ fft.n = 8
    /\ fft.inReal = Distinct(8).real
    /\ Len(fft.swaps) = 2
    /\ fft.len = 16

(* ================== claims: the page around a run ====================== *)

\* The analyze button is disabled and the loading overlay is shown.
Analyzing == analyzeBtnDisabled /\ ~fftLoadingHidden

\* C23: whenever the handler has disabled the analyze button and shown the
\* loading overlay, the button is eventually re-enabled and the overlay
\* hidden, on every path.
C23_ButtonReenabled == Analyzing ~> (~analyzeBtnDisabled /\ fftLoadingHidden)

(* ================= claims: the findings of a verdict =================== *)

\* C24: the details sequence of an analysis result is never empty: in
\* particular, whenever isAIGenerated is true, at least one of the four
\* pattern findings (grid, bright dots, cross, checkerboard) is present.
C24_DetailsNeverEmpty ==
    analysis # <<>> => analysis[1].details # <<>>

(* ============== claims: the listeners of a run on its own ============== *)

\* Run 1 is the only run the video element has been used by.
Alone == \A q \in Runs \ {1} : run[q].pc = "idle"

\* The listener claim for run 1 on its own, where failed is the number of
\* listeners that were invoked and removed without capturing a frame:
\* at most one listener is attached; every listener installed so far is
\* still attached or has captured one frame; once a 'seeked' event has been
\* dispatched no listener is left; none is left when the run has returned.
OneShotListeners(failed) ==
    Alone =>
      /\ Len(listeners) <= 1
      /\ run[1].pc \notin Settled \cup {"idle"} =>
           Len(run[1].requests) = Cardinality(ListenersOf(1)) + Captured(1) + failed
      /\ (BetweenTasks /\ ~seeking /\ 1 \notin seekLost) => listeners = <<>>
      /\ run[1].pc \in Settled => listeners = <<>>

\* C25 as stated: in a run on a video element used by no other run, at most
\* one 'seeked' listener of the analyzer is attached at any time, each
\* listener is removed by the first seeked event that follows its
\* installation and captures exactly one frame, and no listener remains
\* attached once the run has returned.
C25_ListenerCapturesOne == OneShotListeners(0)

\* C25, amended: as stated, except that a listener whose capture throws is
\* removed without capturing a frame.
C25_ListenerOneShot == OneShotListeners(IF 1 \in captureThrew THEN 1 ELSE 0)

\* C25 witness: a run on its own has returned after five requests, and no
\* listener is attached.
C25_Witness ==
    /\ Alone
    /\ run[1].pc = "resolved"
    /\ Len(run[1].requests) = sampleFrames
    /\ listeners = <<>>
    /\ captureThrew = {}

====
